---- MODULE Spec2Model ----
(***************************************************************************)
(* A model of the SSH client scaffold: the localStorage profile store      *)
(* (profileService: getProfiles, saveProfiles, addProfile, updateProfile,  *)
(* deleteProfile), the AES-256-CBC helpers (encrypt, decrypt) and the      *)
(* ssh2 connect helper (sshService.connect).                               *)
(*                                                                         *)
(* Four specifications share the variables:                                *)
(*   Spec      one caller, every store function runs to completion;        *)
(*   SpecRace  two windows sharing localStorage, interleaved at the        *)
(*             getItem / setItem boundary;                                 *)
(*   SpecVault encrypt followed by decrypt on bounded inputs;              *)
(*   SpecSsh   calls of connect and the events of the ssh2 client.         *)
(***************************************************************************)
EXTENDS Integers, Sequences, FiniteSets, TLC

\* ------------------------------------------------------------------ bounds

\* How many ids the generator can hand out before the model stops adding.
MaxIds == 3

\* How many store calls the windows of SpecRace make in all.
MaxCalls == 3

\* How many times connect is called in SpecSsh.
MaxConns == 2

\* The longest text handed to encrypt, in UTF-16 code units, not counting
\* the fixed prefix that takes some texts past one cipher block.
MaxLen == 3

\* ------------------------------------------------------- profile store data

\* An id is a string; the model writes it as a sequence of characters so
\* that the empty string <<>> is a value an id can be compared with.
EmptyId == <<>>

UUIDs == { <<n>> : n \in 1..MaxIds }

\* port is a JavaScript number.  NaN is a number no JSON text can carry.
NaN == "NaN"

\* The fields of Omit<ConnectionProfile, 'id'> the store distinguishes.
ProfileData == { [name |-> "db", port |-> "22"], [name |-> "web", port |-> NaN] }

ConnectionProfile(id, d) == [id |-> id, name |-> d.name, port |-> d.port]

ConnectionProfiles == { ConnectionProfile(id, d) : id \in UUIDs, d \in ProfileData }

\* What localStorage holds under PROFILES_STORAGE_KEY.
\*   missing   getItem returns null
\*   empty     the empty string
\*   garbage   text JSON.parse rejects
\*   nonarray  JSON text of a value that is no array
\*   array     JSON text of an array, items being the parsed elements
NoItem == [form |-> "missing", items |-> <<>>]

ArrayItem(items) == [form |-> "array", items |-> items]

CorruptItems ==
  { [form |-> f, items |-> <<>>] : f \in {"missing", "empty", "garbage", "nonarray"} }

\* ------------------------------------------------------------- variables

VARIABLES
  slot,     \* localStorage[PROFILES_STORAGE_KEY]
  issued,   \* the ids generateId has returned so far
  call,     \* the last completed call of the single caller (Spec)
  win,      \* per window: the store call it is in the middle of (SpecRace)
  overl,    \* per window: the successful writes of others since its read
  lastSave, \* the window whose setItem was the last to take effect
  calls,    \* the store calls the windows have started (SpecRace)
  vText,    \* the text handed to encrypt, as UTF-16 code units (SpecVault)
  vKey,     \* the secretKey handed to encrypt, as bytes
  vDecKey,  \* the secretKey handed to decrypt
  vPayload, \* the completion of encrypt
  vOut,     \* the completion of decrypt
  vPc,      \* start, encrypted or decrypted
  conns     \* the calls of connect so far, each with its client and promise (SpecSsh)

storeVars == <<slot, issued, call, win, overl, lastSave, calls>>

vaultVars == <<vText, vKey, vDecKey, vPayload, vOut, vPc>>

vars == <<slot, issued, call, win, overl, lastSave, calls,
          vText, vKey, vDecKey, vPayload, vOut, vPc, conns>>

\* ------------------------------------------------------ pure store functions

\* A completion of a function: a returned value or a raised error.
Return(v) == [threw |-> FALSE, value |-> v]

Throw == [threw |-> TRUE, value |-> <<>>]

\* JSON.stringify followed by JSON.parse on one record: a non-finite number
\* is written as null.
JsonRoundTrip(p) == [p EXCEPT !.port = IF p.port = NaN THEN "null" ELSE p.port]

Stringify(profiles) == [i \in DOMAIN profiles |-> JsonRoundTrip(profiles[i])]

\* The body of getProfiles' try block.
tryGetProfiles(s, readThrows) ==
  IF readThrows THEN Throw
  ELSE IF s.form \in {"missing", "empty"} THEN Return(<<>>)
  ELSE IF s.form = "garbage" THEN Throw
  ELSE IF s.form = "array" THEN Return(s.items)
  ELSE Return(<<>>)

\* Faulty variant: getProfiles without its catch.
getProfilesUncaught(s, readThrows) == tryGetProfiles(s, readThrows)

getProfiles(s, readThrows) ==
  LET r == tryGetProfiles(s, readThrows)
  IN  IF r.threw THEN Return(<<>>) ELSE r

\* Faulty variant (of the claim that writers are not serialized): a save
\* that reads the slot again and keeps the records it was not given.
saveProfilesMerge(s, profiles, writeThrows) ==
  IF writeThrows THEN s
  ELSE LET cur  == getProfiles(s, FALSE).value
           kept == SelectSeq(cur, LAMBDA q :
                     \A i \in DOMAIN profiles : profiles[i].id # q.id)
       IN  ArrayItem(Stringify(kept \o profiles))

\* saveProfiles: the whole collection replaces the slot; an error of setItem
\* is logged and swallowed, the slot keeping its old value.
saveProfiles(s, profiles, writeThrows) ==
  IF writeThrows THEN s ELSE ArrayItem(Stringify(profiles))

\* The ids generateId may return, used being those it has returned before.
\* crypto.randomUUID, which the renderer has, is taken at its contract: it
\* returns no value twice.  The function does not look at the store.
generateId(used) == UUIDs \ used

\* Array.prototype.findIndex, 1-based; 0 stands for -1.
findIndex(profiles, id) ==
  IF \E i \in DOMAIN profiles : profiles[i].id = id
  THEN CHOOSE i \in DOMAIN profiles :
         /\ profiles[i].id = id
         /\ \A j \in DOMAIN profiles : profiles[j].id = id => i <= j
  ELSE 0

\* Each store function on the collection it read: whether it saves, the
\* collection it saves and what it returns.
addProfile(profiles, d, id) ==
  LET newProfile == ConnectionProfile(id, d)
  IN  [save |-> TRUE, out |-> Append(profiles, newProfile), ret |-> newProfile]

\* Faulty variant: updateProfile saving also when nothing was found.
updateProfileAlwaysSaves(profiles, p) ==
  LET profileIndex == findIndex(profiles, p.id)
  IN  IF profileIndex # 0
      THEN [save |-> TRUE, out |-> [profiles EXCEPT ![profileIndex] = p], ret |-> TRUE]
      ELSE [save |-> TRUE, out |-> profiles, ret |-> FALSE]

\* Faulty variant: updateProfile pushing p instead of assigning it.
updateProfileAppends(profiles, p) ==
  LET profileIndex == findIndex(profiles, p.id)
  IN  IF profileIndex # 0
      THEN [save |-> TRUE, out |-> Append(profiles, p), ret |-> TRUE]
      ELSE [save |-> FALSE, out |-> profiles, ret |-> FALSE]

updateProfile(profiles, p) ==
  LET profileIndex == findIndex(profiles, p.id)
  IN  IF profileIndex # 0
      THEN [save |-> TRUE, out |-> [profiles EXCEPT ![profileIndex] = p], ret |-> TRUE]
      ELSE [save |-> FALSE, out |-> profiles, ret |-> FALSE]

\* Faulty variant: deleteProfile saving also when nothing was removed.
deleteProfileAlwaysSaves(profiles, profileId) ==
  LET updatedProfiles == SelectSeq(profiles, LAMBDA q : q.id # profileId)
  IN  [save |-> TRUE, out |-> updatedProfiles,
       ret |-> Len(updatedProfiles) < Len(profiles)]

deleteProfile(profiles, profileId) ==
  LET updatedProfiles == SelectSeq(profiles, LAMBDA q : q.id # profileId)
  IN  IF Len(updatedProfiles) < Len(profiles)
      THEN [save |-> TRUE, out |-> updatedProfiles, ret |-> TRUE]
      ELSE [save |-> FALSE, out |-> profiles, ret |-> FALSE]

IdsOf(profiles) == { profiles[i].id : i \in DOMAIN profiles }

\* --------------------------------------------------- Spec: a single caller

NoCall ==
  [op |-> "none", arg |-> <<>>, slotBefore |-> NoItem, readThrew |-> FALSE,
   before |-> <<>>, ret |-> <<>>, wrote |-> FALSE, writeThrew |-> FALSE,
   threw |-> FALSE]

Idle == [pc |-> "idle"]

Windows == {"w1", "w2"}

InitStore ==
  /\ slot = NoItem
  /\ issued = {}
  /\ call = NoCall
  /\ win = [w \in Windows |-> Idle]
  /\ overl = [w \in Windows |-> {}]
  /\ lastSave = "none"
  /\ calls = 0

\* A store function run to completion: r is the completion of its
\* getProfiles, e what it does with the collection it read.
\* wrote says that saveProfiles was called, writeThrew that its setItem
\* threw (and was caught), threw that the call itself raised.
Complete(op, arg, readThrows, r, e, writeThrows) ==
  /\ slot' = IF ~r.threw /\ e.save THEN saveProfiles(slot, e.out, writeThrows) ELSE slot
  /\ call' = [op |-> op, arg |-> arg, slotBefore |-> slot, readThrew |-> readThrows,
              before |-> r.value, ret |-> e.ret, wrote |-> ~r.threw /\ e.save,
              writeThrew |-> ~r.threw /\ e.save /\ writeThrows, threw |-> r.threw]

CallGetProfiles ==
  \E readThrows \in BOOLEAN :
    LET r == getProfiles(slot, readThrows)
    IN  /\ Complete("get", <<>>, readThrows, r, [save |-> FALSE, out |-> <<>>, ret |-> r.value], FALSE)
        /\ UNCHANGED <<issued, win, overl, lastSave, calls, vaultVars, conns>>

CallAddProfile ==
  \E d \in ProfileData, readThrows \in BOOLEAN, writeThrows \in BOOLEAN :
    \E id \in generateId(issued) :
      LET r == getProfiles(slot, readThrows)
      IN  /\ Complete("add", d, readThrows, r, addProfile(r.value, d, id), writeThrows)
          /\ issued' = issued \cup {id}
          /\ UNCHANGED <<win, overl, lastSave, calls, vaultVars, conns>>

CallUpdateProfile ==
  \E p \in ConnectionProfiles, readThrows \in BOOLEAN, writeThrows \in BOOLEAN :
    LET r == getProfiles(slot, readThrows)
    IN  /\ Complete("update", p, readThrows, r, updateProfile(r.value, p), writeThrows)
        /\ UNCHANGED <<issued, win, overl, lastSave, calls, vaultVars, conns>>

CallDeleteProfile ==
  \E profileId \in UUIDs, readThrows \in BOOLEAN, writeThrows \in BOOLEAN :
    LET r == getProfiles(slot, readThrows)
    IN  /\ Complete("delete", profileId, readThrows, r, deleteProfile(r.value, profileId), writeThrows)
        /\ UNCHANGED <<issued, win, overl, lastSave, calls, vaultVars, conns>>

\* The slot is changed from outside the service (cleared, or overwritten
\* with text that is no JSON array).
Corrupt ==
  /\ \E s \in CorruptItems : slot' = s
  /\ call' = [NoCall EXCEPT !.op = "external", !.slotBefore = slot]
  /\ UNCHANGED <<issued, win, overl, lastSave, calls, vaultVars, conns>>

Next ==
  \/ CallGetProfiles
  \/ CallAddProfile
  \/ CallUpdateProfile
  \/ CallDeleteProfile
  \/ Corrupt

NoCompletion == [threw |-> FALSE, value |-> <<>>, error |-> "none"]

VaultUnused ==
  /\ vText = <<>>
  /\ vKey = <<>>
  /\ vDecKey = <<>>
  /\ vPayload = NoCompletion
  /\ vOut = NoCompletion
  /\ vPc = "unused"

Init == InitStore /\ VaultUnused /\ conns = <<>>

Spec == Init /\ [][Next]_vars

\* ------------------------------------------------- claims about the store

\* The collection the slot holds: the parsed array, or nothing.
Stored(s) == IF s.form = "array" THEN s.items ELSE <<>>

\* C1: addProfile(d) followed by getProfiles() yields the collection S that
\* was stored, with exactly one record appended: length |S|+1, the records
\* of S kept in order, and a new record with d's fields and an id that is
\* non-empty and differs from every id of S.
C1_AddThenGetAppendsOne ==
  (call.op = "add" /\ ~call.threw) =>
    LET S     == Stored(call.slotBefore)
        after == getProfiles(slot, FALSE).value
    IN  /\ Len(after) = Len(S) + 1
        /\ SubSeq(after, 1, Len(S)) = S
        /\ after[Len(after)].name = call.arg.name
        /\ after[Len(after)].port = call.arg.port
        /\ after[Len(after)].id # EmptyId
        /\ after[Len(after)].id \notin IdsOf(S)

\* C2: no two records of the stored collection have the same id.
C2_UniqueIds ==
  LET S == Stored(slot)
  IN  \A i \in DOMAIN S : \A j \in DOMAIN S : i # j => S[i].id # S[j].id

\* An update that found its record completed on a store of two or more.
C2_Witness ==
  /\ call.op = "update"
  /\ call.wrote
  /\ Len(Stored(slot)) >= 2

\* C4: updateProfile(p) with no stored record of id p.id returns false, does
\* not call saveProfiles and leaves the slot exactly as it was.
C4_UpdateMissingNoOp ==
  (call.op = "update" /\ call.arg.id \notin IdsOf(Stored(call.slotBefore))) =>
    /\ ~call.threw
    /\ call.ret = FALSE
    /\ ~call.wrote
    /\ slot = call.slotBefore

\* updateProfile for an id that is not stored, the store holding others.
C4_Witness ==
  /\ call.op = "update"
  /\ Stored(call.slotBefore) # <<>>
  /\ call.arg.id \notin IdsOf(Stored(call.slotBefore))
  /\ call.ret = FALSE

\* C5: deleteProfile(id) with no stored record of that id returns false,
\* does not call saveProfiles and leaves the slot exactly as it was.
C5_DeleteMissingNoOp ==
  (call.op = "delete" /\ call.arg \notin IdsOf(Stored(call.slotBefore))) =>
    /\ ~call.threw
    /\ call.ret = FALSE
    /\ ~call.wrote
    /\ slot = call.slotBefore

\* deleteProfile for an id that is not stored, the store holding others.
C5_Witness ==
  /\ call.op = "delete"
  /\ Stored(call.slotBefore) # <<>>
  /\ call.arg \notin IdsOf(Stored(call.slotBefore))
  /\ call.ret = FALSE

\* C6: getProfiles never raises and never changes the slot; when the slot is
\* missing, is no JSON, is JSON but no array, or when reading it throws, it
\* returns the empty sequence.
C6_GetProfilesNeverFails ==
  call.op = "get" =>
    /\ ~call.threw
    /\ slot = call.slotBefore
    /\ (call.slotBefore.form # "array" \/ call.readThrew) => call.ret = <<>>
    /\ (call.slotBefore.form = "array" /\ ~call.readThrew) => call.ret = call.slotBefore.items

\* getProfiles on a slot whose text JSON.parse rejects.
C6_Witness ==
  /\ call.op = "get"
  /\ call.slotBefore.form = "garbage"
  /\ ~call.readThrew
  /\ call.ret = <<>>

\* C10: updateProfile(p) with a stored record of id p.id returns true and
\* replaces that record in place: same length and order, the record at the
\* matched position is p, every other record unchanged.
C10_UpdateFoundReplaces ==
  (call.op = "update" /\ call.arg.id \in IdsOf(Stored(call.slotBefore))) =>
    LET S == Stored(call.slotBefore)
        i == findIndex(S, call.arg.id)
    IN  /\ ~call.threw
        /\ call.ret = TRUE
        /\ Stored(slot) = [S EXCEPT ![i] = call.arg]

\* ------------------------------ SpecRace: two windows, one localStorage

\* Every store function is synchronous, so within one window it runs to
\* completion; two windows on the same origin share the slot, and the
\* service takes no lock and keeps no version of what it read, so nothing
\* orders the getItem of one against the setItem of the other.  A call is
\* split where it can be overtaken: Begin* runs it up to its saveProfiles
\* (getProfiles, generateId, the change of the local array) and Save runs
\* saveProfiles and returns.  A call that does not save returns in Begin*.
Begin(w, op, arg, r, e) ==
  /\ win[w].pc # "save"
  /\ calls < MaxCalls
  /\ calls' = calls + 1
  /\ win' = [win EXCEPT ![w] =
               IF e.save
               THEN [pc |-> "save", op |-> op, arg |-> arg, before |-> r.value,
                     out |-> e.out, ret |-> e.ret]
               ELSE Idle]
  /\ overl' = [overl EXCEPT ![w] = {}]
  /\ UNCHANGED <<slot, call, lastSave, vaultVars, conns>>

BeginAdd(w) ==
  \E d \in ProfileData, readThrows \in BOOLEAN :
    \E id \in generateId(issued) :
      LET r == getProfiles(slot, readThrows)
      IN  /\ Begin(w, "add", d, r, addProfile(r.value, d, id))
          /\ issued' = issued \cup {id}

BeginUpdate(w) ==
  \E p \in ConnectionProfiles, readThrows \in BOOLEAN :
    LET r == getProfiles(slot, readThrows)
    IN  /\ Begin(w, "update", p, r, updateProfile(r.value, p))
        /\ UNCHANGED issued

BeginDelete(w) ==
  \E profileId \in UUIDs, readThrows \in BOOLEAN :
    LET r == getProfiles(slot, readThrows)
    IN  /\ Begin(w, "delete", profileId, r, deleteProfile(r.value, profileId))
        /\ UNCHANGED issued

\* Whether a call that reached saveProfiles reports success to its caller:
\* addProfile returns the new profile, the others return true.
ReportsSuccess(c) == c.op \in {"update", "delete"} => c.ret = TRUE

\* The id a call is about.
Target(c) ==
  IF c.op = "add" THEN c.ret.id ELSE IF c.op = "update" THEN c.arg.id ELSE c.arg

\* saveProfiles of the pending call of w, and its return.  A write that
\* took effect is noted for every other window that has read and not yet
\* written.
Save(w) ==
  /\ win[w].pc = "save"
  /\ \E writeThrows \in BOOLEAN :
       /\ slot' = saveProfiles(slot, win[w].out, writeThrows)
       /\ lastSave' = IF writeThrows THEN lastSave ELSE w
       /\ overl' = [v \in Windows |->
                      IF v # w /\ win[v].pc = "save" /\ ~writeThrows
                      THEN overl[v] \cup {[op |-> win[w].op, id |-> Target(win[w]),
                                           ok |-> ReportsSuccess(win[w])]}
                      ELSE overl[v]]
  /\ win' = [win EXCEPT ![w].pc = "done"]
  /\ UNCHANGED <<issued, call, calls, vaultVars, conns>>

NextRace ==
  \E w \in Windows :
    \/ BeginAdd(w)
    \/ BeginUpdate(w)
    \/ BeginDelete(w)
    \/ Save(w)

SpecRace == Init /\ [][NextRace]_vars

Record(profiles, id) == profiles[findIndex(profiles, id)]

\* The change of call o is absent from the slot that w wrote from the
\* collection it had read before o's write: the record o added is missing,
\* the record o deleted is back, the record o updated is as w had read it.
Lost(o, w) ==
  LET S == Stored(slot)
      B == win[w].before
      x == o.id
  IN  /\ o.op = "add" => x \notin IdsOf(S)
      /\ (o.op = "delete" /\ x \in IdsOf(B) /\ Target(win[w]) # x) => x \in IdsOf(S)
      /\ (o.op = "update" /\ x \in IdsOf(B) /\ Target(win[w]) # x) =>
            /\ x \in IdsOf(S)
            /\ Record(S, x) = JsonRoundTrip(Record(B, x))

\* C3: writers are not serialized.  When window w has read the collection,
\* another window's write then takes effect, and w writes back afterwards,
\* the write of w replaces the whole collection with the one w computed
\* from what it had read, the other window's change is lost, and both
\* calls have reported success.
C3_LastWriterWins ==
  \A w \in Windows :
    (lastSave = w /\ win[w].pc = "done" /\ overl[w] # {}) =>
      /\ slot = ArrayItem(Stringify(win[w].out))
      /\ ReportsSuccess(win[w])
      /\ \A o \in overl[w] : o.ok /\ Lost(o, w)

\* Two addProfile calls that both read the same collection: the second
\* write took effect and the first window's record is gone.
C3_Witness ==
  \E w \in Windows :
    /\ lastSave = w
    /\ win[w].pc = "done"
    /\ win[w].op = "add"
    /\ \E o \in overl[w] : o.op = "add" /\ o.ok /\ o.id \notin IdsOf(Stored(slot))

\* ------------------------------------------- SpecVault: encrypt and decrypt

KEY_LENGTH == 32

IV_LENGTH == 16

\* A JavaScript string is a sequence of UTF-16 code units.  The texts of the
\* model are written with 'a', 'é', and the two halves of the surrogate pair
\* of U+1F600.
CodeUnits == {97, 233, 55357, 56832}

\* Nothing, or fourteen ASCII letters: with up to MaxLen code units after
\* them the texts end before, at and after the end of the first block.
Prefixes == { <<>>, [i \in 1..14 |-> 97 + i] }

Texts == { p \o t : p \in Prefixes, t \in UNION { [1..n -> CodeUnits] : n \in 0..MaxLen } }

IsHighSurrogate(c) == c >= 55296 /\ c <= 56319

IsLowSurrogate(c) == c >= 56320 /\ c <= 57343

\* A string with no unpaired surrogate (String.prototype.isWellFormed).
RECURSIVE WellFormedFrom(_, _)
WellFormedFrom(t, i) ==
  IF i > Len(t) THEN TRUE
  ELSE IF IsHighSurrogate(t[i])
       THEN i < Len(t) /\ IsLowSurrogate(t[i + 1]) /\ WellFormedFrom(t, i + 2)
       ELSE ~IsLowSurrogate(t[i]) /\ WellFormedFrom(t, i + 1)

IsWellFormed(t) == WellFormedFrom(t, 1)

\* The bytes of a string under the 'utf8' encoding of Node: a surrogate
\* pair is one four-byte sequence, an unpaired surrogate is written as
\* U+FFFD (EF BF BD).
RECURSIVE Utf8From(_, _)
Utf8From(t, i) ==
  IF i > Len(t) THEN <<>>
  ELSE LET c == t[i] IN
    IF c < 128 THEN <<c>> \o Utf8From(t, i + 1)
    ELSE IF c < 2048
      THEN <<192 + (c \div 64), 128 + (c % 64)>> \o Utf8From(t, i + 1)
    ELSE IF IsHighSurrogate(c) /\ i < Len(t) /\ IsLowSurrogate(t[i + 1])
      THEN LET cp == 65536 + (c - 55296) * 1024 + (t[i + 1] - 56320)
           IN  <<240 + (cp \div 262144), 128 + ((cp \div 4096) % 64),
                 128 + ((cp \div 64) % 64), 128 + (cp % 64)>> \o Utf8From(t, i + 2)
    ELSE IF IsHighSurrogate(c) \/ IsLowSurrogate(c)
      THEN <<239, 191, 189>> \o Utf8From(t, i + 1)
    ELSE <<224 + (c \div 4096), 128 + ((c \div 64) % 64), 128 + (c % 64)>>
           \o Utf8From(t, i + 1)

utf8Encode(t) == Utf8From(t, 1)

IsContinuation(b, i) == i <= Len(b) /\ b[i] >= 128 /\ b[i] <= 191

\* Buffer.prototype.toString('utf8'): a code point above U+FFFF becomes a
\* surrogate pair; a byte that starts no valid sequence becomes U+FFFD.
RECURSIVE DecodeFrom(_, _)
DecodeFrom(b, i) ==
  IF i > Len(b) THEN <<>>
  ELSE LET x == b[i] IN
    IF x < 128 THEN <<x>> \o DecodeFrom(b, i + 1)
    ELSE IF x >= 194 /\ x <= 223 /\ IsContinuation(b, i + 1)
      THEN <<(x - 192) * 64 + (b[i + 1] - 128)>> \o DecodeFrom(b, i + 2)
    ELSE IF x >= 224 /\ x <= 239 /\ IsContinuation(b, i + 1) /\ IsContinuation(b, i + 2)
      THEN LET cp == (x - 224) * 4096 + (b[i + 1] - 128) * 64 + (b[i + 2] - 128)
           IN  IF cp >= 2048 /\ ~IsHighSurrogate(cp) /\ ~IsLowSurrogate(cp)
               THEN <<cp>> \o DecodeFrom(b, i + 3)
               ELSE <<65533>> \o DecodeFrom(b, i + 1)
    ELSE IF x >= 240 /\ x <= 244 /\ IsContinuation(b, i + 1) /\ IsContinuation(b, i + 2)
            /\ IsContinuation(b, i + 3)
      THEN LET cp == (x - 240) * 262144 + (b[i + 1] - 128) * 4096
                     + (b[i + 2] - 128) * 64 + (b[i + 3] - 128)
           IN  IF cp >= 65536 /\ cp <= 1114111
               THEN <<55296 + ((cp - 65536) \div 1024), 56320 + ((cp - 65536) % 1024)>>
                      \o DecodeFrom(b, i + 4)
               ELSE <<65533>> \o DecodeFrom(b, i + 1)
    ELSE <<65533>> \o DecodeFrom(b, i + 1)

utf8Decode(b) == DecodeFrom(b, 1)

\* ---- hex and the envelope

HexDigits ==
  <<"0", "1", "2", "3", "4", "5", "6", "7", "8", "9", "a", "b", "c", "d", "e", "f">>

\* The value of a hex digit, -1 for any other character.
HexValue(ch) ==
  IF \E k \in 1..16 : HexDigits[k] = ch
  THEN (CHOOSE k \in 1..16 : HexDigits[k] = ch) - 1
  ELSE -1

\* toString('hex'): two digits for every byte.
toHex(b) ==
  [k \in 1..(2 * Len(b)) |->
     LET x == b[(k + 1) \div 2]
     IN  IF k % 2 = 1 THEN HexDigits[(x \div 16) + 1] ELSE HexDigits[(x % 16) + 1]]

\* Buffer.from(str, 'hex'): pairs of digits, up to the first pair that is
\* no hex; a last character without a partner is dropped.
fromHex(str) ==
  LET pairs    == Len(str) \div 2
      valid(k) == HexValue(str[2 * k - 1]) >= 0 /\ HexValue(str[2 * k]) >= 0
      n        == CHOOSE m \in 0..pairs :
                    /\ \A k \in 1..m : valid(k)
                    /\ m = pairs \/ ~valid(m + 1)
  IN  [k \in 1..n |-> HexValue(str[2 * k - 1]) * 16 + HexValue(str[2 * k])]

\* String.prototype.split(':'): the segments between the colons.
split(str) ==
  LET colons == { i \in DOMAIN str : str[i] = ":" }
      at(k)  == IF k = 0 THEN 0
                ELSE IF k > Cardinality(colons) THEN Len(str) + 1
                ELSE CHOOSE i \in colons : Cardinality({ j \in colons : j < i }) = k - 1
  IN  [k \in 1..(Cardinality(colons) + 1) |-> SubSeq(str, at(k - 1) + 1, at(k) - 1)]

\* ---- the cipher

RECURSIVE Xor(_, _)
Xor(a, b) ==
  IF a = 0 THEN b
  ELSE IF b = 0 THEN a
  ELSE ((a + b) % 2) + 2 * Xor(a \div 2, b \div 2)

XorBlock(x, y) == [i \in 1..IV_LENGTH |-> Xor(x[i], y[i])]

\* AES-256 on one block is a permutation of the 16-byte blocks chosen by the
\* key, and its inverse.  The model takes a simple keyed permutation in its
\* place: the bytes are rotated by one position and the key bytes added.
blockEncrypt(key, b) ==
  [i \in 1..IV_LENGTH |-> (b[(i % IV_LENGTH) + 1] + key[i] + key[i + IV_LENGTH]) % 256]

blockDecrypt(key, c) ==
  [j \in 1..IV_LENGTH |->
     LET i == ((j + IV_LENGTH - 2) % IV_LENGTH) + 1
     IN  (c[i] + 512 - key[i] - key[i + IV_LENGTH]) % 256]

\* PKCS#7: cipher.final() pads to a whole number of blocks with n bytes of
\* value n, n in 1..16.
pad(b) ==
  LET n == IV_LENGTH - (Len(b) % IV_LENGTH)
  IN  b \o [i \in 1..n |-> n]

PadOk(b) ==
  /\ Len(b) > 0
  /\ LET n == b[Len(b)]
     IN  /\ n >= 1 /\ n <= IV_LENGTH /\ n <= Len(b)
         /\ \A i \in (Len(b) - n + 1)..Len(b) : b[i] = n

unpad(b) == SubSeq(b, 1, Len(b) - b[Len(b)])

Block(b, k) == SubSeq(b, (k - 1) * IV_LENGTH + 1, k * IV_LENGTH)

\* CBC: every block is xored with the previous ciphertext block, the first
\* with the IV, and then enciphered.
RECURSIVE CbcEncryptFrom(_, _, _, _)
CbcEncryptFrom(key, prev, b, k) ==
  IF k * IV_LENGTH > Len(b) THEN <<>>
  ELSE LET c == blockEncrypt(key, XorBlock(Block(b, k), prev))
       IN  c \o CbcEncryptFrom(key, c, b, k + 1)

RECURSIVE CbcDecryptFrom(_, _, _, _)
CbcDecryptFrom(key, prev, c, k) ==
  IF k * IV_LENGTH > Len(c) THEN <<>>
  ELSE XorBlock(blockDecrypt(key, Block(c, k)), prev)
         \o CbcDecryptFrom(key, Block(c, k), c, k + 1)

\* ---- encrypt and decrypt

Returns(v) == [threw |-> FALSE, value |-> v, error |-> "none"]

Throws(e) == [threw |-> TRUE, value |-> <<>>, error |-> e]

\* cipher.update(text, 'utf8', 'hex') gives the ciphertext of the whole
\* blocks of the text, cipher.final('hex') that of the padded rest.
WholeBlocks(b) == SubSeq(b, 1, (Len(b) \div IV_LENGTH) * IV_LENGTH)

\* Faulty variant: encrypt without "encrypted += cipher.final('hex')".
encryptWithoutFinal(text, secretKey, iv) ==
  IF Len(secretKey) # KEY_LENGTH THEN Throws("Secret key must be 32 bytes long.")
  ELSE LET data      == utf8Encode(text)
           encrypted == CbcEncryptFrom(secretKey, iv, WholeBlocks(data), 1)
       IN  Returns(toHex(iv) \o <<":">> \o toHex(encrypted))

\* encrypt(text, secretKey), iv being the result of crypto.randomBytes.
encrypt(text, secretKey, iv) ==
  IF Len(secretKey) # KEY_LENGTH THEN Throws("Secret key must be 32 bytes long.")
  ELSE LET data      == utf8Encode(text)
           encrypted == CbcEncryptFrom(secretKey, iv, pad(data), 1)
       IN  Returns(toHex(iv) \o <<":">> \o toHex(encrypted))

decrypt(encryptedDataWithIv, secretKey) ==
  IF Len(secretKey) # KEY_LENGTH THEN Throws("Secret key must be 32 bytes long.")
  ELSE LET parts == split(encryptedDataWithIv) IN
    IF Len(parts) # 2 THEN Throws("Invalid encrypted data format.")
    ELSE LET iv            == fromHex(parts[1])
             encryptedText == fromHex(parts[2])
         IN
      IF Len(iv) # IV_LENGTH THEN Throws("Invalid IV length.")
      ELSE IF Len(encryptedText) = 0 \/ Len(encryptedText) % IV_LENGTH # 0
        THEN Throws("Decryption process failed.")
      ELSE LET decrypted == CbcDecryptFrom(secretKey, iv, encryptedText, 1)
           IN  IF PadOk(decrypted)
               THEN Returns(utf8Decode(unpad(decrypted)))
               ELSE Throws("Decryption process failed.")

\* ---- the inputs and the steps

Key32a == [i \in 1..KEY_LENGTH |-> (i * 37) % 256]

Key32b == [i \in 1..KEY_LENGTH |-> (i * 101 + 7) % 256]

Key31 == [i \in 1..(KEY_LENGTH - 1) |-> (i * 37) % 256]

Keys == {Key32a, Key31}

\* Two of the values crypto.randomBytes(IV_LENGTH) can return.
IVs == { [i \in 1..IV_LENGTH |-> (i * 16 + 3) % 256],
         [i \in 1..IV_LENGTH |-> (255 - i * 9) % 256] }

InitVault ==
  /\ InitStore
  /\ conns = <<>>
  /\ vText \in Texts
  /\ vKey \in Keys
  /\ vDecKey = <<>>
  /\ vPayload = NoCompletion
  /\ vOut = NoCompletion
  /\ vPc = "start"

Encrypt ==
  /\ vPc = "start"
  /\ \E iv \in IVs : vPayload' = encrypt(vText, vKey, iv)
  /\ vPc' = "encrypted"
  /\ UNCHANGED <<storeVars, conns, vText, vKey, vDecKey, vOut>>

\* decrypt of the payload, with the key of encrypt or with another one.
Decrypt ==
  /\ vPc = "encrypted"
  /\ ~vPayload.threw
  /\ \E k \in {vKey, Key32b} :
       /\ vDecKey' = k
       /\ vOut' = decrypt(vPayload.value, k)
  /\ vPc' = "decrypted"
  /\ UNCHANGED <<storeVars, conns, vText, vKey, vPayload>>

NextVault == Encrypt \/ Decrypt

SpecVault == InitVault /\ [][NextVault]_vars

\* C7 as stated: for every text and every key of exactly 32 bytes, decrypt
\* of encrypt's payload with the same key returns the text, the payload
\* splitting on ':' into exactly two segments, the first a 16-byte IV.
C7_RoundTripEveryText ==
  (vPc = "decrypted" /\ Len(vKey) = KEY_LENGTH /\ vDecKey = vKey) =>
    /\ Len(split(vPayload.value)) = 2
    /\ Len(fromHex(split(vPayload.value)[1])) = IV_LENGTH
    /\ vOut = Returns(vText)

\* C7, amended: the same for every text that has no unpaired surrogate; a
\* text with one comes back with U+FFFD in its place.
C7_RoundTripWellFormed ==
  (vPc = "decrypted" /\ Len(vKey) = KEY_LENGTH /\ vDecKey = vKey) =>
    /\ Len(split(vPayload.value)) = 2
    /\ Len(fromHex(split(vPayload.value)[1])) = IV_LENGTH
    /\ ~vOut.threw
    /\ IsWellFormed(vText) => vOut.value = vText
    /\ ~IsWellFormed(vText) => vOut.value # vText /\ 65533 \in {vOut.value[i] : i \in DOMAIN vOut.value}

\* A text of more than one cipher block, with a surrogate pair and a
\* two-byte character, has gone through encrypt and decrypt.
C7_Witness ==
  /\ vPc = "decrypted"
  /\ vDecKey = vKey
  /\ Len(vKey) = KEY_LENGTH
  /\ IsWellFormed(vText)
  /\ Len(utf8Encode(vText)) > IV_LENGTH
  /\ \E i \in DOMAIN vText : IsHighSurrogate(vText[i])
  /\ \E i \in DOMAIN vText : vText[i] = 233
  /\ vOut.value = vText

\* ----------------------------------------------------- SpecSsh: connect

\* params.host: empty, or the name of a server.
Hosts == {"", "example.org"}

\* A promise is settled once: resolve and reject of a settled promise do
\* nothing.
resolve(c) == IF c.promise = "pending" THEN [c EXCEPT !.promise = "resolved"] ELSE c

reject(c, err) ==
  IF c.promise = "pending" THEN [c EXCEPT !.promise = "rejected", !.error = err] ELSE c

\* Whether the client of a call is between conn.connect and its close.
Open(c) == c.client \in {"connecting", "ending", "failing"}

\* connect(params): a new promise and a new Client, the three handlers,
\* the configuration, and conn.connect(config) inside try/catch.  The
\* library either throws from conn.connect, before any I/O, or starts the
\* connection; it does not throw for an empty host, which it reads as
\* localhost.  invoked says that conn.connect was called, concurrent that
\* an earlier call was still connecting with its promise pending.
Connect ==
  /\ Len(conns) < MaxConns
  /\ \E host \in Hosts, syncThrows \in BOOLEAN :
       LET c0 == [host |-> host, client |-> "new", promise |-> "pending",
                  error |-> "none", invoked |-> FALSE, everReady |-> FALSE,
                  concurrent |-> \E i \in DOMAIN conns :
                                   conns[i].client = "connecting" /\ conns[i].promise = "pending"]
           c1 == [c0 EXCEPT !.invoked = TRUE]
           c2 == IF syncThrows
                 THEN reject(c1, "Error")
                 ELSE [c1 EXCEPT !.client = "connecting"]
       IN  conns' = Append(conns, c2)
  /\ UNCHANGED <<storeVars, vaultVars>>

\* The client emits 'ready': the handler logs and calls conn.end().
OnReady(i) ==
  /\ conns[i].client = "connecting"
  /\ conns' = [conns EXCEPT ![i] = [@ EXCEPT !.client = "ending", !.everReady = TRUE]]
  /\ UNCHANGED <<storeVars, vaultVars>>

\* The client emits 'error': the handler rejects the promise with it.
OnError(i) ==
  /\ Open(conns[i])
  /\ \E err \in {"TransportError", "AuthenticationError"} :
       conns' = [conns EXCEPT ![i] = [reject(@, err) EXCEPT !.client = "failing"]]
  /\ UNCHANGED <<storeVars, vaultVars>>

\* The client emits 'close': the handler resolves the promise.
OnClose(i) ==
  /\ Open(conns[i])
  /\ conns' = [conns EXCEPT ![i] = [resolve(@) EXCEPT !.client = "closed"]]
  /\ UNCHANGED <<storeVars, vaultVars>>

NextSsh ==
  \/ Connect
  \/ \E i \in DOMAIN conns :
       \/ OnReady(i)
       \/ OnError(i)
       \/ OnClose(i)

SpecSsh == Init /\ [][NextSsh]_vars

\* C8: connect with an empty host fails at once with a ValidationError and
\* without network I/O: conn.connect is never invoked for it and its
\* promise never waits for an event of the client.
C8_EmptyHostRejected ==
  \A i \in DOMAIN conns :
    conns[i].host = "" =>
      /\ conns[i].promise = "rejected"
      /\ conns[i].error = "ValidationError"
      /\ ~conns[i].invoked
      /\ conns[i].client = "new"

\* C9: a connect called while an earlier one is still connecting fails
\* with InvalidStateError and starts no second connection, so that at most
\* one attempt is in flight.
C9_OneConnectInFlight ==
  /\ \A i \in DOMAIN conns :
       conns[i].concurrent =>
         /\ conns[i].promise = "rejected"
         /\ conns[i].error = "InvalidStateError"
         /\ ~conns[i].invoked
  /\ Cardinality({ i \in DOMAIN conns : conns[i].client = "connecting" }) <= 1

\* C11: whatever the order of the client's ready, error and close events,
\* the promise of connect is resolved only after a ready followed by a
\* close, and a connection that closes without ever having been ready
\* leaves the promise rejected, never resolved.
C11_ResolvedOnlyAfterReady ==
  \A i \in DOMAIN conns :
    /\ conns[i].promise = "resolved" => conns[i].everReady /\ conns[i].client = "closed"
    /\ (conns[i].client = "closed" /\ ~conns[i].everReady) =>
         conns[i].promise = "rejected"

====
